---- MODULE Spec2Model ----
(***************************************************************************)
(* A model of valu3's Number (src/valu3/src/types/number.rs): the record   *)
(* of twelve optional slots, its setters, getters, classification,         *)
(* canonicalizing conversions, Display and textual parsing; and of Value   *)
(* (src/valu3/src/value.rs) with the conversions from it to native types   *)
(* (src/valu3/src/traits.rs), its equality and its order.                  *)
(*                                                                         *)
(* Integers are exact.  TLC's own integers are 32 bits wide, so a stored   *)
(* integer is a sign and a magnitude, the magnitude a little-endian        *)
(* sequence of base-2^8 limbs without high zero limbs.  The Rust widths    *)
(* 8/16/32/64/128 are kept as they are, and an `as` cast is the two's      *)
(* complement truncation Rust performs.                                    *)
(***************************************************************************)
EXTENDS Integers, Sequences, FiniteSets, TLC

VARIABLES
    number,   \* the Number under test: kind -> Option (None or Some(v))
    lastSet,  \* the kind whose setter ran last, "none" before any setter
    out,      \* the last call and what it returned
    text,     \* the &str last handed to Number::try_from
    value     \* the Value under conversion or comparison

vars == <<number, lastSet, out, text, value>>

-----------------------------------------------------------------------------
(* Option<T> *)

None == <<>>

Some(v) == <<v>>

is_some(o) == o # None

unwrap(o) == o[1]

\* The first element of seq that passes Test, "none" when none does.
First(seq, Test(_)) ==
    LET hits == {i \in 1..Len(seq) : Test(seq[i])}
    IN IF hits = {} THEN "none"
       ELSE seq[CHOOSE i \in hits : \A j \in hits : i <= j]

-----------------------------------------------------------------------------
(* The twelve kinds, in the order of the struct's fields. *)

FieldOrder == <<"u8", "u16", "u32", "u64", "u128",
                "i8", "i16", "i32", "i64", "i128", "f32", "f64">>

SignedKinds == {"i8", "i16", "i32", "i64", "i128"}

UnsignedKinds == {"u8", "u16", "u32", "u64", "u128"}

IntKinds == SignedKinds \cup UnsignedKinds

FloatKinds == {"f32", "f64"}

Kinds == IntKinds \cup FloatKinds

\* The width in bits of an integer kind.
Bits(k) ==
    CASE k \in {"i8", "u8"} -> 8
      [] k \in {"i16", "u16"} -> 16
      [] k \in {"i32", "u32"} -> 32
      [] k \in {"i64", "u64", "isize", "usize"} -> 64
      [] k \in {"i128", "u128"} -> 128

IsSignedTy(k) == k \in SignedKinds \cup {"isize"}

-----------------------------------------------------------------------------
(* Exact integers: [neg, mag], mag little-endian in base 2^8. *)

Base == 2^8

RECURSIVE Norm(_)
\* Drops the high zero limbs.
Norm(m) ==
    IF m = <<>> THEN <<>>
    ELSE IF m[Len(m)] = 0 THEN Norm(SubSeq(m, 1, Len(m) - 1))
    ELSE m

MkInt(neg, mag) ==
    LET m == Norm(mag) IN [neg |-> neg /\ m # <<>>, mag |-> m]

RECURSIVE Limbs(_)
Limbs(n) == IF n = 0 THEN <<>> ELSE <<n % Base>> \o Limbs(n \div Base)

\* The exact integer of a small literal.
Z(n) == IF n < 0 THEN MkInt(TRUE, Limbs(-n)) ELSE MkInt(FALSE, Limbs(n))

Limb(m, i) == IF i <= Len(m) THEN m[i] ELSE 0

RECURSIVE CmpMagFrom(_, _, _)
\* Compares two magnitudes from limb i downward: -1, 0 or 1.
CmpMagFrom(a, b, i) ==
    IF i = 0 THEN 0
    ELSE IF Limb(a, i) < Limb(b, i) THEN -1
    ELSE IF Limb(a, i) > Limb(b, i) THEN 1
    ELSE CmpMagFrom(a, b, i - 1)

CmpMag(a, b) ==
    CmpMagFrom(a, b, IF Len(a) > Len(b) THEN Len(a) ELSE Len(b))

\* -1, 0 or 1 as x is below, equal to or above y.
Cmp(x, y) ==
    IF x.neg /\ ~y.neg THEN -1
    ELSE IF ~x.neg /\ y.neg THEN 1
    ELSE IF x.neg THEN CmpMag(y.mag, x.mag)
    ELSE CmpMag(x.mag, y.mag)

Lt(x, y) == Cmp(x, y) = -1

Le(x, y) == Cmp(x, y) # 1

Gt(x, y) == Cmp(x, y) = 1

Ge(x, y) == Cmp(x, y) # -1

RECURSIVE AddMagFrom(_, _, _, _, _)
AddMagFrom(a, b, i, n, carry) ==
    IF i > n THEN (IF carry = 0 THEN <<>> ELSE <<carry>>)
    ELSE LET s == Limb(a, i) + Limb(b, i) + carry
         IN <<s % Base>> \o AddMagFrom(a, b, i + 1, n, s \div Base)

AddMag(a, b) ==
    AddMagFrom(a, b, 1, IF Len(a) > Len(b) THEN Len(a) ELSE Len(b), 0)

RECURSIVE SubMagFrom(_, _, _, _, _)
\* a - b for magnitudes with a >= b.
SubMagFrom(a, b, i, n, borrow) ==
    IF i > n THEN <<>>
    ELSE LET d == Limb(a, i) - Limb(b, i) - borrow
         IN <<IF d < 0 THEN d + Base ELSE d>>
                \o SubMagFrom(a, b, i + 1, n, IF d < 0 THEN 1 ELSE 0)

SubMag(a, b) == Norm(SubMagFrom(a, b, 1, Len(a), 0))

Neg(x) == MkInt(~x.neg, x.mag)

Add(x, y) ==
    IF x.neg = y.neg THEN MkInt(x.neg, AddMag(x.mag, y.mag))
    ELSE IF CmpMag(x.mag, y.mag) >= 0 THEN MkInt(x.neg, SubMag(x.mag, y.mag))
    ELSE MkInt(y.neg, SubMag(y.mag, x.mag))

Sub(x, y) == Add(x, Neg(y))

\* T::MAX and T::MIN of an integer type.
MaxOf(k) ==
    LET n == Bits(k) \div 8
    IN MkInt(FALSE, [i \in 1..n |->
                        IF i = n /\ IsSignedTy(k) THEN Base \div 2 - 1
                        ELSE Base - 1])

MinOf(k) ==
    LET n == Bits(k) \div 8
    IN IF IsSignedTy(k)
       THEN MkInt(TRUE, [i \in 1..n |-> IF i = n THEN Base \div 2 ELSE 0])
       ELSE Z(0)

InRange(v, k) == Le(MinOf(k), v) /\ Le(v, MaxOf(k))

RECURSIVE IncPat(_)
\* A limb pattern plus one, the carry out of the top limb dropped.
IncPat(p) ==
    IF p = <<>> THEN <<>>
    ELSE IF Head(p) = Base - 1 THEN <<0>> \o IncPat(Tail(p))
    ELSE <<Head(p) + 1>> \o Tail(p)

\* The two's complement negation of a limb pattern.
NegPat(p) == IncPat([i \in 1..Len(p) |-> Base - 1 - p[i]])

\* The low n limbs of v in two's complement.
Pattern(v, n) ==
    LET low == [i \in 1..n |-> Limb(v.mag, i)]
    IN IF v.neg THEN NegPat(low) ELSE low

\* `v as k`: Rust's integer cast, which keeps the low Bits(k) bits and reads
\* them as a k.
AsInt(v, k) ==
    LET n == Bits(k) \div 8
        p == Pattern(v, n)
    IN IF IsSignedTy(k) /\ p[n] >= Base \div 2
       THEN MkInt(TRUE, NegPat(p))
       ELSE MkInt(FALSE, p)

-----------------------------------------------------------------------------
(* Floats.  A finite f32 or f64 is named by its sign and its shortest      *)
(* decimal form dig * 10^exp (dig: decimal digits, most significant first, *)
(* no zero at either end; <<>> is zero), which is what Rust's parser reads *)
(* and its Display prints, with the type whose rounding the decimal stands *)
(* for.  Inputs are kept to a few significant digits, where the decimal    *)
(* and the float determine each other.                                     *)

NaN == [cls |-> "nan"]

Inf(neg) == [cls |-> "inf", neg |-> neg]

RECURSIVE StripLeft(_)
StripLeft(d) == IF d # <<>> /\ Head(d) = 0 THEN StripLeft(Tail(d)) ELSE d

RECURSIVE StripRight(_)
StripRight(d) ==
    IF d # <<>> /\ d[Len(d)] = 0 THEN StripRight(SubSeq(d, 1, Len(d) - 1))
    ELSE d

\* The finite float of type ty nearest to (-1)^neg * digits * 10^e.
Fin(ty, neg, digits, e) ==
    LET l == StripLeft(digits)
        d == StripRight(l)
    IN [cls |-> "num", ty |-> ty, neg |-> neg, dig |-> d,
        exp |-> IF d = <<>> THEN 0 ELSE e + (Len(l) - Len(d))]

\* `f < 0.0` and `f == 0.0` as IEEE 754 compares: NaN is neither, and
\* -0.0 equals 0.0.
FloatLtZero(f) ==
    \/ f.cls = "inf" /\ f.neg
    \/ f.cls = "num" /\ f.neg /\ f.dig # <<>>

FloatEqZero(f) == f.cls = "num" /\ f.dig = <<>>

-----------------------------------------------------------------------------
(* Integer to float, and f32 to f64. *)

RECURSIVE DivSmallFrom(_, _, _, _)
\* Long division of a magnitude by a small d, from limb i downward with
\* remainder r: <<quotient limbs (high first), remainder>>.
DivSmallFrom(m, d, i, r) ==
    IF i = 0 THEN <<<<>>, r>>
    ELSE LET cur == r * Base + m[i]
             rest == DivSmallFrom(m, d, i - 1, cur % d)
         IN <<<<cur \div d>> \o rest[1], rest[2]>>

Reverse(q) == [i \in 1..Len(q) |-> q[Len(q) + 1 - i]]

\* <<m \div d, m % d>>
DivSmall(m, d) ==
    LET r == DivSmallFrom(m, d, Len(m), 0) IN <<Norm(Reverse(r[1])), r[2]>>

RECURSIVE MulSmallFrom(_, _, _, _)
MulSmallFrom(m, c, i, carry) ==
    IF i > Len(m) THEN Limbs(carry)
    ELSE LET x == m[i] * c + carry
         IN <<x % Base>> \o MulSmallFrom(m, c, i + 1, x \div Base)

\* m * c for a small c.
MulSmall(m, c) == Norm(MulSmallFrom(m, c, 1, 0))

\* m \div 2 for a magnitude.
HalfMag(m) == DivSmall(m, 2)[1]

\* m \div 2^s and m * 2^s, by whole limbs and then by the bits left over.
Shr(m, s) ==
    LET l == s \div 8
    IN IF l >= Len(m) THEN <<>>
       ELSE DivSmall(SubSeq(m, l + 1, Len(m)), 2^(s % 8))[1]

Shl(m, s) ==
    IF m = <<>> THEN <<>>
    ELSE [i \in 1..(s \div 8) |-> 0] \o MulSmall(m, 2^(s % 8))

RECURSIVE BitsOfLimb(_)
BitsOfLimb(x) == IF x = 0 THEN 0 ELSE 1 + BitsOfLimb(x \div 2)

BitLen(m) == IF m = <<>> THEN 0 ELSE 8 * (Len(m) - 1) + BitsOfLimb(m[Len(m)])

\* The magnitude rounded to p significant bits, ties to even.
RoundBits(m, p) ==
    IF BitLen(m) <= p THEN m
    ELSE LET s == BitLen(m) - p
             q == Shr(m, s)
             low == SubMag(m, Shl(q, s))
             c == CmpMag(low, Shl(<<1>>, s - 1))
             up == c = 1 \/ (c = 0 /\ Limb(q, 1) % 2 = 1)
         IN Shl(IF up THEN AddMag(q, <<1>>) ELSE q, s)

RECURSIVE Digits(_)
\* The decimal digits of a magnitude, most significant first.
Digits(m) ==
    IF m = <<>> THEN <<>>
    ELSE LET r == DivSmall(m, 10) IN Digits(r[1]) \o <<r[2]>>

RECURSIVE SmallOfDigits(_)
\* The number whose decimal digits are d, for at most six digits.
SmallOfDigits(d) ==
    IF d = <<>> THEN 0
    ELSE 10 * SmallOfDigits(SubSeq(d, 1, Len(d) - 1)) + d[Len(d)]

RECURSIVE MagOfDigits(_)
\* The magnitude whose decimal digits are d, most significant first, taken
\* six digits at a time.
MagOfDigits(d) ==
    IF Len(d) <= 6 THEN Limbs(SmallOfDigits(d))
    ELSE AddMag(MulSmall(MagOfDigits(SubSeq(d, 1, Len(d) - 6)), 10^6),
                Limbs(SmallOfDigits(SubSeq(d, Len(d) - 5, Len(d)))))

\* `v as f64`: the nearest f64 (53 significant bits) of an integer.  Up to
\* 2^53 that is the integer; above, the digits are those of the exact value
\* of the float.
IntAsF64(v) == Fin("f64", v.neg, Digits(RoundBits(v.mag, 53)), 0)


RECURSIVE DivPow5(_, _)
\* m \div 5^e when 5^e divides m, else <<>>, for m # <<>>.
DivPow5(m, e) ==
    IF e = 0 THEN m
    ELSE LET r == DivSmall(m, 5)
         IN IF r[2] # 0 THEN <<>> ELSE DivPow5(r[1], e - 1)

RECURSIVE OddPart(_)
OddPart(m) == IF m = <<>> \/ m[1] % 2 = 1 THEN m ELSE OddPart(HalfMag(m))

\* Whether the decimal dig * 10^exp is itself a binary fraction of at most p
\* significant bits.
ExactBinary(f, p) ==
    LET m == MagOfDigits(f.dig)
        n == IF f.exp >= 0 THEN m ELSE DivPow5(m, -f.exp)
    IN f.dig = <<>> \/ (n # <<>> /\ BitLen(OddPart(n)) <= p)

\* `f as f64` of an f32: the value is kept.  A decimal that is exactly the
\* f32 names the same f64; any other keeps standing for its f32 rounding
\* (3.14f32 as f64 is not 3.14f64).
F32AsF64(f) ==
    IF f.cls = "num" /\ ExactBinary(f, 24) THEN [f EXCEPT !.ty = "f64"] ELSE f

-----------------------------------------------------------------------------
(* Number *)

\* Number::default(): every slot None.
Default == [k \in Kinds |-> None]

\* Number { <k>: Some(v), ..Default::default() }
From(k, v) == [Default EXCEPT ![k] = Some(v)]

\* clean() that resets the integer slots only.
clean_ints_only(n) == [k \in Kinds |-> IF k \in FloatKinds THEN n[k] ELSE None]

clean(n) == [k \in Kinds |-> None]

\* A setter that clears the other slots itself.
set_exclusive(n, k, v) == [j \in Kinds |-> IF j = k THEN Some(v) ELSE None]

set(n, k, v) == [n EXCEPT ![k] = Some(v)]

\* get_u16 reading the u8 field.
get_shifted(n, k) == IF k = "u16" THEN n["u8"] ELSE n[k]

get(n, k) == n[k]

\* A panic, here of Option::unwrap() on None.
Panic == [panic |-> "called Option::unwrap() on a None value"]

\* get_<k>_unsafe() that falls back to the type's default.
get_unsafe_or_default(n, k) ==
    IF is_some(n[k]) THEN unwrap(n[k])
    ELSE IF k \in FloatKinds THEN Fin(k, FALSE, <<>>, 0) ELSE Z(0)

\* self.<k>.unwrap()
get_unsafe(n, k) == IF is_some(n[k]) THEN unwrap(n[k]) ELSE Panic

is(n, k) == is_some(n[k])

\* The kinds whose slot is populated.
Populated(n) == {k \in Kinds : is(n, k)}

is_number(n) ==
    \/ is(n, "i8") \/ is(n, "i16") \/ is(n, "i32") \/ is(n, "i64")
    \/ is(n, "i128") \/ is(n, "u8") \/ is(n, "u16") \/ is(n, "u32")
    \/ is(n, "u64") \/ is(n, "u128") \/ is(n, "f32") \/ is(n, "f64")

is_integer(n) ==
    \/ is(n, "i8") \/ is(n, "i16") \/ is(n, "i32") \/ is(n, "i64")
    \/ is(n, "i128") \/ is(n, "u8") \/ is(n, "u16") \/ is(n, "u32")
    \/ is(n, "u64") \/ is(n, "u128")

is_float(n) == is(n, "f32") \/ is(n, "f64")

\* number_type() testing the slots in the order of the struct's fields.
number_type_field_order(n) ==
    LET k == First(FieldOrder, LAMBDA j : n[j] # None)
    IN IF k = "none" THEN "Unknown"
       ELSE [u8 |-> "U8", u16 |-> "U16", u32 |-> "U32", u64 |-> "U64",
             u128 |-> "U128", i8 |-> "I8", i16 |-> "I16", i32 |-> "I32",
             i64 |-> "I64", i128 |-> "I128", f32 |-> "F32", f64 |-> "F64"][k]

number_type(n) ==
    IF is(n, "i8") THEN "I8"
    ELSE IF is(n, "i16") THEN "I16"
    ELSE IF is(n, "i32") THEN "I32"
    ELSE IF is(n, "i64") THEN "I64"
    ELSE IF is(n, "i128") THEN "I128"
    ELSE IF is(n, "u8") THEN "U8"
    ELSE IF is(n, "u16") THEN "U16"
    ELSE IF is(n, "u32") THEN "U32"
    ELSE IF is(n, "u64") THEN "U64"
    ELSE IF is(n, "u128") THEN "U128"
    ELSE IF is(n, "f32") THEN "F32"
    ELSE IF is(n, "f64") THEN "F64"
    ELSE "Unknown"

\* The integer part of a float.
TruncFloat(f) ==
    IF f.cls # "num" THEN Z(0)
    ELSE IF f.exp >= 0
    THEN MkInt(f.neg, MagOfDigits(f.dig \o [i \in 1..f.exp |-> 0]))
    ELSE MkInt(f.neg, MagOfDigits(SubSeq(f.dig, 1, Len(f.dig) + f.exp)))

\* to_i64() with branches for the float slots, which cast the float.
to_i64_truncating(n) ==
    LET k == First(<<"i128", "i64", "i32", "i16", "i8",
                     "u128", "u64", "u32", "u16", "u8", "f64", "f32">>,
                   LAMBDA j : n[j] # None)
    IN IF k = "none" THEN None
       ELSE IF k \in FloatKinds THEN Some(TruncFloat(unwrap(n[k])))
       ELSE IF k \in {"i128", "u128"} /\ Gt(unwrap(n[k]), MaxOf("i64")) THEN None
       ELSE Some(AsInt(unwrap(n[k]), "i64"))

to_i64(n) ==
    IF is(n, "i128") THEN
        IF Gt(get_unsafe(n, "i128"), AsInt(MaxOf("i64"), "i128")) THEN None
        ELSE Some(AsInt(get_unsafe(n, "i128"), "i64"))
    ELSE IF is(n, "i64") THEN Some(AsInt(get_unsafe(n, "i64"), "i64"))
    ELSE IF is(n, "i32") THEN Some(AsInt(get_unsafe(n, "i32"), "i64"))
    ELSE IF is(n, "i16") THEN Some(AsInt(get_unsafe(n, "i16"), "i64"))
    ELSE IF is(n, "i8") THEN Some(AsInt(get_unsafe(n, "i8"), "i64"))
    ELSE IF is(n, "u128") THEN
        IF Gt(get_unsafe(n, "u128"), AsInt(MaxOf("i64"), "u128")) THEN None
        ELSE Some(AsInt(get_unsafe(n, "u128"), "i64"))
    ELSE IF is(n, "u64") THEN Some(AsInt(get_unsafe(n, "u64"), "i64"))
    ELSE IF is(n, "u32") THEN Some(AsInt(get_unsafe(n, "u32"), "i64"))
    ELSE IF is(n, "u16") THEN Some(AsInt(get_unsafe(n, "u16"), "i64"))
    ELSE IF is(n, "u8") THEN Some(AsInt(get_unsafe(n, "u8"), "i64"))
    ELSE None

\* to_u64() that casts without testing the sign or the range.
to_u64_unchecked(n) ==
    LET k == First(<<"i128", "i64", "i32", "i16", "i8",
                     "u128", "u64", "u32", "u16", "u8">>,
                   LAMBDA j : n[j] # None)
    IN IF k = "none" THEN None ELSE Some(AsInt(unwrap(n[k]), "u64"))

to_u64(n) ==
    IF is(n, "i128") THEN
        IF \/ Lt(get_unsafe(n, "i128"), Z(0))
           \/ Gt(get_unsafe(n, "i128"), AsInt(MaxOf("u64"), "i128"))
        THEN None
        ELSE Some(AsInt(get_unsafe(n, "i128"), "u64"))
    ELSE IF is(n, "i64") THEN
        IF Lt(get_unsafe(n, "i64"), Z(0)) THEN None
        ELSE Some(AsInt(get_unsafe(n, "i64"), "u64"))
    ELSE IF is(n, "i32") THEN
        IF Lt(get_unsafe(n, "i32"), Z(0)) THEN None
        ELSE Some(AsInt(get_unsafe(n, "i32"), "u64"))
    ELSE IF is(n, "i16") THEN
        IF Lt(get_unsafe(n, "i16"), Z(0)) THEN None
        ELSE Some(AsInt(get_unsafe(n, "i16"), "u64"))
    ELSE IF is(n, "i8") THEN
        IF Lt(get_unsafe(n, "i8"), Z(0)) THEN None
        ELSE Some(AsInt(get_unsafe(n, "i8"), "u64"))
    ELSE IF is(n, "u128") THEN
        IF Gt(get_unsafe(n, "u128"), AsInt(MaxOf("u64"), "u128")) THEN None
        ELSE Some(AsInt(get_unsafe(n, "u128"), "u64"))
    ELSE IF is(n, "u64") THEN Some(AsInt(get_unsafe(n, "u64"), "u64"))
    ELSE IF is(n, "u32") THEN Some(AsInt(get_unsafe(n, "u32"), "u64"))
    ELSE IF is(n, "u16") THEN Some(AsInt(get_unsafe(n, "u16"), "u64"))
    ELSE IF is(n, "u8") THEN Some(AsInt(get_unsafe(n, "u8"), "u64"))
    ELSE None

to_f64(n) ==
    IF is(n, "f64") THEN Some(get_unsafe(n, "f64"))
    ELSE IF is(n, "f32") THEN Some(F32AsF64(get_unsafe(n, "f32")))
    ELSE IF is(n, "i128") THEN Some(IntAsF64(get_unsafe(n, "i128")))
    ELSE IF is(n, "i64") THEN Some(IntAsF64(get_unsafe(n, "i64")))
    ELSE IF is(n, "i32") THEN Some(IntAsF64(get_unsafe(n, "i32")))
    ELSE IF is(n, "i16") THEN Some(IntAsF64(get_unsafe(n, "i16")))
    ELSE IF is(n, "i8") THEN Some(IntAsF64(get_unsafe(n, "i8")))
    ELSE IF is(n, "u128") THEN Some(IntAsF64(get_unsafe(n, "u128")))
    ELSE IF is(n, "u64") THEN Some(IntAsF64(get_unsafe(n, "u64")))
    ELSE IF is(n, "u32") THEN Some(IntAsF64(get_unsafe(n, "u32")))
    ELSE IF is(n, "u16") THEN Some(IntAsF64(get_unsafe(n, "u16")))
    ELSE IF is(n, "u8") THEN Some(IntAsF64(get_unsafe(n, "u8")))
    ELSE None

\* `i as f32` of an integer.
IntAsF32(v) == Fin("f32", v.neg, Digits(RoundBits(v.mag, 24)), 0)

\* `f32::MAX as k` and `f64::MAX as k` of an integer type k: a float to
\* integer cast saturates, and both are above every integer type's MAX.
FloatMaxAs(k) == MaxOf(k)

\* From<usize> that always takes the widest unsigned kind.
from_usize_widest(i) == From("u64", AsInt(i, "u64"))

\* Number::from(i: usize): the first arm whose guard holds.
from_usize(i) ==
    IF Le(i, AsInt(MaxOf("u8"), "usize")) THEN From("u8", AsInt(i, "u8"))
    ELSE IF Le(i, AsInt(MaxOf("u16"), "usize")) THEN From("u16", AsInt(i, "u16"))
    ELSE IF Le(i, AsInt(MaxOf("u32"), "usize")) THEN From("u32", AsInt(i, "u32"))
    ELSE IF Le(i, AsInt(MaxOf("u64"), "usize")) THEN From("u64", AsInt(i, "u64"))
    ELSE IF Le(i, AsInt(MaxOf("u128"), "usize")) THEN From("u128", AsInt(i, "u128"))
    ELSE IF Le(i, AsInt(MaxOf("i8"), "usize")) THEN From("i8", AsInt(i, "i8"))
    ELSE IF Le(i, AsInt(MaxOf("i16"), "usize")) THEN From("i16", AsInt(i, "i16"))
    ELSE IF Le(i, AsInt(MaxOf("i32"), "usize")) THEN From("i32", AsInt(i, "i32"))
    ELSE IF Le(i, AsInt(MaxOf("i64"), "usize")) THEN From("i64", AsInt(i, "i64"))
    ELSE IF Le(i, AsInt(MaxOf("i128"), "usize")) THEN From("i128", AsInt(i, "i128"))
    ELSE IF Le(i, FloatMaxAs("usize")) THEN From("f32", IntAsF32(i))
    ELSE From("f64", IntAsF64(i))

\* Number::from(i: isize): the first arm whose guard holds.  The guards test
\* the upper end of each kind only.
from_isize(i) ==
    IF Le(i, AsInt(MaxOf("i8"), "isize")) THEN From("i8", AsInt(i, "i8"))
    ELSE IF Le(i, AsInt(MaxOf("i16"), "isize")) THEN From("i16", AsInt(i, "i16"))
    ELSE IF Le(i, AsInt(MaxOf("i32"), "isize")) THEN From("i32", AsInt(i, "i32"))
    ELSE IF Le(i, AsInt(MaxOf("i64"), "isize")) THEN From("i64", AsInt(i, "i64"))
    ELSE IF Le(i, AsInt(MaxOf("i128"), "isize")) THEN From("i128", AsInt(i, "i128"))
    ELSE IF Le(i, FloatMaxAs("isize")) THEN From("f32", IntAsF32(i))
    ELSE From("f64", IntAsF64(i))

-----------------------------------------------------------------------------
(* str::parse, as the standard library defines it for the integer and the  *)
(* float types.  A text is a sequence of one-character strings.            *)

Ok(v) == [ok |-> TRUE, val |-> v]

Err(e) == [ok |-> FALSE, err |-> e]

DigitChars == <<"0", "1", "2", "3", "4", "5", "6", "7", "8", "9">>

IsDigit(c) == \E i \in 1..10 : DigitChars[i] = c

DigitVal(c) == (CHOOSE i \in 1..10 : DigitChars[i] = c) - 1

DigitVals(t) == [i \in 1..Len(t) |-> DigitVal(t[i])]

\* <T as FromStr>::from_str for an integer type k: an optional sign ('-'
\* only for a signed type), then one or more decimal digits, the value within
\* the range of k.
parse_int(t, k) ==
    IF t = <<>> THEN Err("ParseIntError")
    ELSE IF t = <<"+">> \/ t = <<"-">> THEN Err("ParseIntError")
    ELSE LET minus == Head(t) = "-" /\ IsSignedTy(k)
             body == IF Head(t) = "+" \/ minus THEN Tail(t) ELSE t
         IN IF \E i \in 1..Len(body) : ~IsDigit(body[i])
            THEN Err("ParseIntError")
            ELSE LET v == MkInt(minus, MagOfDigits(DigitVals(body)))
                 IN IF InRange(v, k) THEN Ok(v) ELSE Err("ParseIntError")

RECURSIVE DigitRun(_, _)
\* The number of consecutive digits of t from position i on.
DigitRun(t, i) ==
    IF i <= Len(t) /\ IsDigit(t[i]) THEN 1 + DigitRun(t, i + 1) ELSE 0

UpperCase == [I |-> "i", N |-> "n", F |-> "f", T |-> "t", Y |-> "y", A |-> "a"]

ToLower(t) ==
    [i \in 1..Len(t) |-> IF t[i] \in DOMAIN UpperCase THEN UpperCase[t[i]] ELSE t[i]]

RECURSIVE ExpVal(_)
\* The exponent's digits as a number, which stops growing at 0x10000 as the
\* library's does.
ExpVal(d) ==
    IF d = <<>> THEN 0
    ELSE LET e == ExpVal(SubSeq(d, 1, Len(d) - 1))
         IN IF e < 65536 THEN 10 * e + d[Len(d)] ELSE e

\* Whether the decimal a.aaa is above the decimal b.bbb, both starting with
\* a nonzero digit.
DigitsAbove(a, b) ==
    \E i \in 1..(IF Len(a) > Len(b) THEN Len(a) ELSE Len(b)) :
        /\ Limb(a, i) > Limb(b, i)
        /\ \A j \in 1..(i - 1) : Limb(a, j) = Limb(b, j)

\* The largest finite value and half the smallest positive value of a float
\* type, as <<leading digits, decimal exponent of the first digit>>.
MaxFinite(ty) ==
    IF ty = "f64" THEN <<<<1, 7, 9, 7, 6, 9, 3, 1, 3, 4, 8, 6, 2, 3, 1, 5, 7>>, 308>>
    ELSE <<<<3, 4, 0, 2, 8, 2, 3, 5>>, 38>>

HalfMinPositive(ty) ==
    IF ty = "f64" THEN <<<<2, 4, 7, 0, 3, 2, 8, 2, 2, 9, 2, 0, 6, 2, 3, 2, 7>>, -324>>
    ELSE <<<<7, 0, 0, 6, 4, 9, 2, 3>>, -46>>

\* The float of type ty a decimal rounds to: infinite above the largest
\* finite value, zero at or below half the smallest positive one.
RoundDecimal(ty, neg, digits, e) ==
    LET f == Fin(ty, neg, digits, e)
        sci == f.exp + Len(f.dig) - 1
        hi == MaxFinite(ty)
        lo == HalfMinPositive(ty)
    IN IF f.dig = <<>> THEN f
       ELSE IF sci > hi[2] \/ (sci = hi[2] /\ DigitsAbove(f.dig, hi[1]))
       THEN Inf(neg)
       ELSE IF sci < lo[2] \/ (sci = lo[2] /\ ~DigitsAbove(f.dig, lo[1]))
       THEN Fin(ty, neg, <<>>, 0)
       ELSE f

\* <T as FromStr>::from_str for a float type ty:
\*   Float  ::= Sign? ( 'inf' | 'infinity' | 'nan' | Number )   (any case)
\*   Number ::= ( Digit+ | Digit+ '.' Digit* | Digit* '.' Digit+ ) Exp?
\*   Exp    ::= 'e' Sign? Digit+
parse_float(t, ty) ==
    LET signed == t # <<>> /\ Head(t) \in {"+", "-"}
        neg == t # <<>> /\ Head(t) = "-"
        s == IF signed THEN Tail(t) ELSE t
        n1 == DigitRun(s, 1)
        dot == n1 + 1 <= Len(s) /\ s[n1 + 1] = "."
        n2 == IF dot THEN DigitRun(s, n1 + 2) ELSE 0
        q == n1 + (IF dot THEN 1 + n2 ELSE 0) + 1
        hasExp == q <= Len(s) /\ s[q] \in {"e", "E"}
        esigned == hasExp /\ q + 1 <= Len(s) /\ s[q + 1] \in {"+", "-"}
        eneg == esigned /\ s[q + 1] = "-"
        r == q + (IF esigned THEN 2 ELSE 1)
        n3 == IF hasExp THEN DigitRun(s, r) ELSE 0
        e == ExpVal(DigitVals(SubSeq(s, r, r + n3 - 1)))
        mant == DigitVals(SubSeq(s, 1, n1)) \o DigitVals(SubSeq(s, n1 + 2, n1 + 1 + n2))
        number_ok ==
            /\ n1 + n2 >= 1
            /\ IF hasExp THEN n3 >= 1 /\ r + n3 = Len(s) + 1 ELSE q = Len(s) + 1
    IN IF number_ok
       THEN Ok(RoundDecimal(ty, neg, mant, (IF eneg THEN -e ELSE e) - n2))
       ELSE IF ToLower(s) \in {<<"i", "n", "f">>,
                               <<"i", "n", "f", "i", "n", "i", "t", "y">>}
       THEN Ok(Inf(neg))
       ELSE IF ToLower(s) = <<"n", "a", "n">> THEN Ok(NaN)
       ELSE Err("ParseFloatError")

\* value.parse::<k>()
parse(t, k) == IF k \in FloatKinds THEN parse_float(t, k) ELSE parse_int(t, k)

\* try_from() that tries the narrowest types first.
try_from_narrowest(t) ==
    LET k == First(<<"u8", "i8", "u16", "i16", "u32", "i32", "u64", "i64",
                     "u128", "i128", "f32", "f64">>,
                   LAMBDA j : parse(t, j).ok)
    IN IF k = "none" THEN Err("NotNumber") ELSE Ok(From(k, parse(t, k).val))

\* Number::try_from(&str)
\* try_from that tries every integer parser before the float parsers.
try_from_integers_first(t) ==
    LET k == First(<<"i32", "i8", "i16", "i64", "i128", "u8", "u16", "u32",
                     "u64", "u128", "f64", "f32">>,
                   LAMBDA j : parse(t, j).ok)
    IN IF k = "none" THEN Err("NotNumber") ELSE Ok(From(k, parse(t, k).val))

try_from(t) ==
    IF parse(t, "i32").ok THEN Ok(From("i32", parse(t, "i32").val))
    ELSE IF parse(t, "f64").ok THEN Ok(From("f64", parse(t, "f64").val))
    ELSE IF parse(t, "i8").ok THEN Ok(From("i8", parse(t, "i8").val))
    ELSE IF parse(t, "i16").ok THEN Ok(From("i16", parse(t, "i16").val))
    ELSE IF parse(t, "i64").ok THEN Ok(From("i64", parse(t, "i64").val))
    ELSE IF parse(t, "i128").ok THEN Ok(From("i128", parse(t, "i128").val))
    ELSE IF parse(t, "u8").ok THEN Ok(From("u8", parse(t, "u8").val))
    ELSE IF parse(t, "u16").ok THEN Ok(From("u16", parse(t, "u16").val))
    ELSE IF parse(t, "u32").ok THEN Ok(From("u32", parse(t, "u32").val))
    ELSE IF parse(t, "u64").ok THEN Ok(From("u64", parse(t, "u64").val))
    ELSE IF parse(t, "u128").ok THEN Ok(From("u128", parse(t, "u128").val))
    ELSE IF parse(t, "f32").ok THEN Ok(From("f32", parse(t, "f32").val))
    ELSE Err("NotNumber")

-----------------------------------------------------------------------------
(* Display and the sign tests. *)

DigitText(d) == [i \in 1..Len(d) |-> DigitChars[d[i] + 1]]

\* `{}` of an integer: '-' for a negative value, then the decimal digits.
int_to_string(v) ==
    (IF v.neg THEN <<"-">> ELSE <<>>) \o
    (IF v.mag = <<>> THEN <<"0">> ELSE DigitText(Digits(v.mag)))

\* `{}` of a float: NaN, inf, -inf, or the shortest decimal that names the
\* float, written in full without an exponent; the sign bit prints '-', also
\* on a zero.
float_to_string(f) ==
    IF f.cls = "nan" THEN <<"N", "a", "N">>
    ELSE IF f.cls = "inf"
    THEN (IF f.neg THEN <<"-">> ELSE <<>>) \o <<"i", "n", "f">>
    ELSE LET n == Len(f.dig)
             e == f.exp
             body ==
                 IF n = 0 THEN <<"0">>
                 ELSE IF e >= 0 THEN DigitText(f.dig) \o [i \in 1..e |-> "0"]
                 ELSE IF -e < n
                 THEN DigitText(SubSeq(f.dig, 1, n + e)) \o <<".">> \o
                      DigitText(SubSeq(f.dig, n + e + 1, n))
                 ELSE <<"0", ".">> \o [i \in 1..(-e - n) |-> "0"] \o DigitText(f.dig)
         IN (IF f.neg THEN <<"-">> ELSE <<>>) \o body

\* write!(f, "{}", x)
to_string(x, k) == IF k \in FloatKinds THEN float_to_string(x) ELSE int_to_string(x)

\* Display that writes the magnitude and drops the sign.
fmt_magnitude(n) ==
    LET k == First(<<"i8", "i16", "i32", "i64", "i128", "u8", "u16", "u32",
                     "u64", "u128", "f32", "f64">>, LAMBDA j : n[j] # None)
        t == to_string(unwrap(n[k]), k)
    IN IF k = "none" THEN <<"0">>
       ELSE IF Head(t) = "-" THEN Tail(t) ELSE t

\* <Number as Display>::fmt
fmt(n) ==
    IF is(n, "i8") THEN to_string(get_unsafe(n, "i8"), "i8")
    ELSE IF is(n, "i16") THEN to_string(get_unsafe(n, "i16"), "i16")
    ELSE IF is(n, "i32") THEN to_string(get_unsafe(n, "i32"), "i32")
    ELSE IF is(n, "i64") THEN to_string(get_unsafe(n, "i64"), "i64")
    ELSE IF is(n, "i128") THEN to_string(get_unsafe(n, "i128"), "i128")
    ELSE IF is(n, "u8") THEN to_string(get_unsafe(n, "u8"), "u8")
    ELSE IF is(n, "u16") THEN to_string(get_unsafe(n, "u16"), "u16")
    ELSE IF is(n, "u32") THEN to_string(get_unsafe(n, "u32"), "u32")
    ELSE IF is(n, "u64") THEN to_string(get_unsafe(n, "u64"), "u64")
    ELSE IF is(n, "u128") THEN to_string(get_unsafe(n, "u128"), "u128")
    ELSE IF is(n, "f32") THEN to_string(get_unsafe(n, "f32"), "f32")
    ELSE IF is(n, "f64") THEN to_string(get_unsafe(n, "f64"), "f64")
    ELSE <<"0">>

\* is_signed() that tests the kind of the slot and not its value.
is_signed_by_kind(n) ==
    \/ is(n, "i8") \/ is(n, "i16") \/ is(n, "i32") \/ is(n, "i64")
    \/ is(n, "i128") \/ is(n, "f32") \/ is(n, "f64")

is_signed(n) ==
    \/ is(n, "i8") /\ Lt(unwrap(n["i8"]), Z(0))
    \/ is(n, "i16") /\ Lt(unwrap(n["i16"]), Z(0))
    \/ is(n, "i32") /\ Lt(unwrap(n["i32"]), Z(0))
    \/ is(n, "i64") /\ Lt(unwrap(n["i64"]), Z(0))
    \/ is(n, "i128") /\ Lt(unwrap(n["i128"]), Z(0))
    \/ is(n, "f32") /\ FloatLtZero(unwrap(n["f32"]))
    \/ is(n, "f64") /\ FloatLtZero(unwrap(n["f64"]))

is_unsigned(n) ==
    is(n, "u8") \/ is(n, "u16") \/ is(n, "u32") \/ is(n, "u64") \/ is(n, "u128")

is_zero(n) ==
    \/ is(n, "i8") /\ unwrap(n["i8"]) = Z(0)
    \/ is(n, "i16") /\ unwrap(n["i16"]) = Z(0)
    \/ is(n, "i32") /\ unwrap(n["i32"]) = Z(0)
    \/ is(n, "i64") /\ unwrap(n["i64"]) = Z(0)
    \/ is(n, "i128") /\ unwrap(n["i128"]) = Z(0)
    \/ is(n, "f32") /\ FloatEqZero(unwrap(n["f32"]))
    \/ is(n, "f64") /\ FloatEqZero(unwrap(n["f64"]))
    \/ is(n, "u8") /\ unwrap(n["u8"]) = Z(0)
    \/ is(n, "u16") /\ unwrap(n["u16"]) = Z(0)
    \/ is(n, "u32") /\ unwrap(n["u32"]) = Z(0)
    \/ is(n, "u64") /\ unwrap(n["u64"]) = Z(0)
    \/ is(n, "u128") /\ unwrap(n["u128"]) = Z(0)

\* is_positive() that forgets zero.
is_positive_not_signed(n) == ~is_signed(n)

is_positive(n) == ~is_signed(n) /\ ~is_zero(n)

is_negative(n) == is_signed(n) /\ ~is_zero(n)

-----------------------------------------------------------------------------
(* Value and the conversions from it.  A Value is a tuple whose first      *)
(* element names the variant: <<"String", s>>, <<"Number", n>>,            *)
(* <<"Boolean", b>>, <<"Array", sequence of Values>>, <<"Object", function *)
(* from string keys to Values>>, <<"Null">>, <<"Undefined">>,              *)
(* <<"DateTime", d>>.  A native type is a tuple too: <<"i32">>,            *)
(* <<"String">>, <<"bool">>, <<"Value">>, <<"Vec", T>>, <<"HashMap", T>>,  *)
(* <<"BTreeMap", T>>, <<"Option", T>>.                                     *)

\* The variants in the order the enum declares them.
Variants == <<"String", "Number", "Boolean", "Array", "Object", "Null",
              "Undefined", "DateTime">>

\* A call that panicked, here on Option::unwrap() of None.
Unwind == <<"panic", "called Option::unwrap() on a None value">>

IsUnwind(r) == Len(r) = 2

\* from_value of a numeric type that converts an integer of another kind
\* when the value fits.
from_value_number_widening(k, v) ==
    IF v[1] # "Number" THEN None
    ELSE IF is(v[2], k) THEN get(v[2], k)
    ELSE IF k \in IntKinds /\ is_some(to_i64(v[2])) /\ InRange(unwrap(to_i64(v[2])), k)
    THEN to_i64(v[2])
    ELSE None

\* <i8 .. f64 as FromValueBehavior>::from_value, k the type
from_value_number(k, v) ==
    IF v[1] = "Number" THEN get(v[2], k) ELSE None

\* <String as FromValueBehavior>::from_value
from_value_string(v) ==
    IF v[1] = "String" THEN Some(v[2]) ELSE None

\* <bool as FromValueBehavior>::from_value
from_value_bool(v) ==
    IF v[1] = "Boolean" THEN Some(v[2]) ELSE None

\* Vec<T>::from_value that leaves out the elements that do not convert.
from_value_vec_skipping(v, items) ==
    IF v[1] = "Array"
    THEN IF \E i \in 1..Len(items) : IsUnwind(items[i]) THEN Unwind
         ELSE Some([i \in 1..Len(SelectSeq(items, is_some)) |->
                       unwrap(SelectSeq(items, is_some)[i])])
    ELSE None

\* <Vec<T> as FromValueBehavior>::from_value, items the results of
\* T::from_value on the elements: unwrap() panics on the first None, and a
\* panic inside an element's conversion unwinds through this one.
from_value_vec(v, items) ==
    IF v[1] = "Array"
    THEN IF \E i \in 1..Len(items) : items[i] = None \/ IsUnwind(items[i])
         THEN Unwind
         ELSE Some([i \in 1..Len(items) |-> unwrap(items[i])])
    ELSE None

\* <Value as FromValueBehavior>::from_value that knows no Undefined.
from_value_value_defined(v) ==
    IF v[1] = "Undefined" THEN None ELSE Some(v)

\* <Value as FromValueBehavior>::from_value
from_value_value(v) == Some(v)

\* key.as_string_b().as_string() and key.to_string() of an Object's key: the
\* key's own text.
key_as_string(key) == key

key_to_string(key) == key

\* HashMap<String, T>::from_value that leaves out the entries that do not
\* convert.
from_value_hash_map_skipping(v, items) ==
    IF v[1] = "Object"
    THEN IF \E key \in DOMAIN items : IsUnwind(items[key]) THEN Unwind
         ELSE Some([name \in {key_as_string(j) : j \in {j \in DOMAIN items : is_some(items[j])}} |->
                       unwrap(items[CHOOSE key \in DOMAIN items :
                                        key_as_string(key) = name])])
    ELSE None

\* <HashMap<String, T> as FromValueBehavior>::from_value, items the results
\* of T::from_value on the Object's values, by key.
from_value_hash_map(v, items) ==
    IF v[1] = "Object"
    THEN IF \E key \in DOMAIN items : items[key] = None \/ IsUnwind(items[key])
         THEN Unwind
         ELSE Some([name \in {key_as_string(key) : key \in DOMAIN items} |->
                       unwrap(items[CHOOSE key \in DOMAIN items :
                                        key_as_string(key) = name])])
    ELSE None

\* <BTreeMap<String, T> as FromValueBehavior>::from_value
from_value_btree_map(v, items) ==
    IF v[1] = "Object"
    THEN IF \E key \in DOMAIN items : items[key] = None \/ IsUnwind(items[key])
         THEN Unwind
         ELSE Some([name \in {key_to_string(key) : key \in DOMAIN items} |->
                       unwrap(items[CHOOSE key \in DOMAIN items :
                                        key_to_string(key) = name])])
    ELSE None

\* Option<T>::from_value that takes Undefined for absence as well.
from_value_option_undefined(v, inner) ==
    IF v[1] \in {"Null", "Undefined"} THEN None
    ELSE IF IsUnwind(inner) THEN Unwind
    ELSE Some(inner)

\* <Option<T> as FromValueBehavior>::from_value, inner the result of
\* T::from_value(value), which is called for every variant but Null.
from_value_option(v, inner) ==
    IF v[1] = "Null" THEN None
    ELSE IF IsUnwind(inner) THEN Unwind
    ELSE Some(inner)

RECURSIVE from_value(_, _)
\* T::from_value(v): the implementation of the type T.
from_value(T, v) ==
    CASE T[1] \in Kinds -> from_value_number(T[1], v)
      [] T[1] = "String" -> from_value_string(v)
      [] T[1] = "bool" -> from_value_bool(v)
      [] T[1] = "Value" -> from_value_value(v)
      [] T[1] = "Vec" ->
            from_value_vec(v, IF v[1] = "Array"
                              THEN [i \in 1..Len(v[2]) |-> from_value(T[2], v[2][i])]
                              ELSE <<>>)
      [] T[1] = "HashMap" ->
            from_value_hash_map(v, IF v[1] = "Object"
                                   THEN [key \in DOMAIN v[2] |-> from_value(T[2], v[2][key])]
                                   ELSE <<>>)
      [] T[1] = "BTreeMap" ->
            from_value_btree_map(v, IF v[1] = "Object"
                                    THEN [key \in DOMAIN v[2] |-> from_value(T[2], v[2][key])]
                                    ELSE <<>>)
      [] T[1] = "Option" ->
            from_value_option(v, IF v[1] = "Null" THEN None ELSE from_value(T[2], v))

\* a == b of two floats: NaN equals nothing, and -0.0 equals 0.0.
float_eq(a, b) ==
    /\ a.cls # "nan" /\ b.cls # "nan"
    /\ \/ FloatEqZero(a) /\ FloatEqZero(b)
       \/ a = b

\* The sign (-1, 0, 1) and the magnitude's rank among same-signed floats.
FloatSign(a) ==
    IF FloatEqZero(a) THEN 0 ELSE IF a.neg THEN -1 ELSE 1

\* Whether |a| < |b| for two nonzero floats.
FloatMagLt(a, b) ==
    IF a.cls = "inf" THEN FALSE
    ELSE IF b.cls = "inf" THEN TRUE
    ELSE LET sa == a.exp + Len(a.dig)
             sb == b.exp + Len(b.dig)
         IN sa < sb \/ (sa = sb /\ DigitsAbove(b.dig, a.dig))

\* a.partial_cmp(&b) of two floats: None when either is NaN.
float_partial_cmp(a, b) ==
    IF a.cls = "nan" \/ b.cls = "nan" THEN None
    ELSE IF FloatSign(a) < FloatSign(b) THEN Some("Less")
    ELSE IF FloatSign(a) > FloatSign(b) THEN Some("Greater")
    ELSE IF FloatSign(a) = 0 \/ a = b THEN Some("Equal")
    ELSE IF FloatMagLt(a, b) = (FloatSign(a) = 1) THEN Some("Less")
    ELSE Some("Greater")

\* Option<T>'s == and partial_cmp for a slot of kind k: None is below every
\* Some.
slot_eq(k, a, b) ==
    IF a = None \/ b = None THEN a = None /\ b = None
    ELSE IF k \in FloatKinds THEN float_eq(unwrap(a), unwrap(b))
    ELSE unwrap(a) = unwrap(b)

slot_partial_cmp(k, a, b) ==
    IF a = None /\ b = None THEN Some("Equal")
    ELSE IF a = None THEN Some("Less")
    ELSE IF b = None THEN Some("Greater")
    ELSE IF k \in FloatKinds THEN float_partial_cmp(unwrap(a), unwrap(b))
    ELSE Some(<<"Less", "Equal", "Greater">>[Cmp(unwrap(a), unwrap(b)) + 2])

\* #[derive(PartialEq)] of Number: every field equal.
number_eq(a, b) == \A k \in Kinds : slot_eq(k, a[k], b[k])

RECURSIVE number_cmp_from(_, _, _)
number_cmp_from(a, b, i) ==
    IF i > Len(FieldOrder) THEN Some("Equal")
    ELSE LET c == slot_partial_cmp(FieldOrder[i], a[FieldOrder[i]], b[FieldOrder[i]])
         IN IF c = Some("Equal") THEN number_cmp_from(a, b, i + 1) ELSE c

\* #[derive(PartialOrd)] of Number: the fields compared in the order of
\* their declaration, the first one that is not Equal deciding.
number_partial_cmp(a, b) == number_cmp_from(a, b, 1)

\* The position of a variant in the enum's declaration.
Discriminant(v) == CHOOSE i \in 1..Len(Variants) : Variants[i] = v[1]

\* The characters a String payload is made of, in code point order.
CharOrder == <<"A", "a", "b">>

CharRank(c) == CHOOSE i \in 1..Len(CharOrder) : CharOrder[i] = c

RECURSIVE string_partial_cmp(_, _)
\* The order of two strings: lexical, by character.
string_partial_cmp(a, b) ==
    IF a = <<>> /\ b = <<>> THEN Some("Equal")
    ELSE IF a = <<>> THEN Some("Less")
    ELSE IF b = <<>> THEN Some("Greater")
    ELSE IF CharRank(Head(a)) < CharRank(Head(b)) THEN Some("Less")
    ELSE IF CharRank(Head(a)) > CharRank(Head(b)) THEN Some("Greater")
    ELSE string_partial_cmp(Tail(a), Tail(b))

RECURSIVE value_eq(_, _)
\* #[derive(PartialEq)] of Value: the same variant and equal payloads.  An
\* Array's payloads are equal element by element, an Object's key by key.
value_eq(a, b) ==
    /\ a[1] = b[1]
    /\ CASE a[1] = "Number" -> number_eq(a[2], b[2])
         [] a[1] = "Array" ->
               /\ Len(a[2]) = Len(b[2])
               /\ \A i \in 1..Len(a[2]) : value_eq(a[2][i], b[2][i])
         [] a[1] = "Object" ->
               /\ DOMAIN a[2] = DOMAIN b[2]
               /\ \A key \in DOMAIN a[2] : value_eq(a[2][key], b[2][key])
         [] a[1] \in {"Null", "Undefined"} -> TRUE
         [] OTHER -> a[2] = b[2]

\* #[derive(PartialOrd)] of Value: the variants in the order of their
\* declaration, and two values of one variant as their payloads.
value_partial_cmp(a, b) ==
    IF Discriminant(a) < Discriminant(b) THEN Some("Less")
    ELSE IF Discriminant(a) > Discriminant(b) THEN Some("Greater")
    ELSE CASE a[1] = "Number" -> number_partial_cmp(a[2], b[2])
           [] a[1] = "String" -> string_partial_cmp(a[2], b[2])
           [] a[1] = "Boolean" ->
                 IF a[2] = b[2] THEN Some("Equal")
                 ELSE IF b[2] THEN Some("Less") ELSE Some("Greater")
           [] a[1] \in {"Null", "Undefined"} -> Some("Equal")

RECURSIVE to_value(_, _)
\* x.to_value() for x of the native type T: a number goes to the Number slot
\* of its own type, an absent optional to Null.
to_value(T, x) ==
    CASE T[1] \in Kinds -> <<"Number", From(T[1], x)>>
      [] T[1] = "String" -> <<"String", x>>
      [] T[1] = "bool" -> <<"Boolean", x>>
      [] T[1] = "Value" -> x
      [] T[1] = "Vec" -> <<"Array", [i \in 1..Len(x) |-> to_value(T[2], x[i])]>>
      [] T[1] \in {"HashMap", "BTreeMap"} ->
            <<"Object", [key \in DOMAIN x |-> to_value(T[2], x[key])]>>
      [] T[1] = "Option" ->
            IF x = None THEN <<"Null">> ELSE to_value(T[2], unwrap(x))

\* from_value::<T>(v.clone()).map(|x| x.to_value())
round_trip(T, v) ==
    LET r == from_value(T, v)
    IN IF r = None \/ IsUnwind(r) THEN r ELSE Some(to_value(T, unwrap(r)))

-----------------------------------------------------------------------------
(* DateTime: <<"Date", day>> with day the number of days since 1970-01-01, *)
(* <<"Time", s>> with s the seconds since midnight, <<"DateTime", t>> with *)
(* t the seconds since 1970-01-01T00:00:00Z.  A Duration is a number of    *)
(* seconds, negative or not.                                               *)

SecondsPerDay == 86400

\* NaiveDate::from_ymd_opt(y, m, d) as a day number, in the proleptic
\* Gregorian calendar.
DaysFromCivil(y, m, d) ==
    LET yy == IF m <= 2 THEN y - 1 ELSE y
        era == yy \div 400
        yoe == yy - era * 400
        mp == (m + 9) % 12
        doy == (153 * mp + 2) \div 5 + d - 1
        doe == yoe * 365 + yoe \div 4 - yoe \div 100 + doy
    IN era * 146097 + doe - 719468

\* DateTime::from_ymd_opt(year, month, day)
from_ymd_opt(y, m, d) == <<"Date", DaysFromCivil(y, m, d)>>

\* DateTime::with_ymd_and_hms(year, month, day, hour, min, sec)
with_ymd_and_hms(y, m, d, h, mi, sec) ==
    <<"DateTime", DaysFromCivil(y, m, d) * SecondsPerDay + h * 3600 + mi * 60 + sec>>

\* duration.num_days(): the whole days of the duration, toward zero.
num_days(d) ==
    IF d >= 0 THEN d \div SecondsPerDay ELSE -((-d) \div SecondsPerDay)

\* add_duration() that takes the days of the duration rounded down.
add_duration_floor_days(dt, d) ==
    CASE dt[1] = "Date" -> Some(<<"Date", dt[2] + d \div SecondsPerDay>>)
      [] dt[1] = "Time" -> None
      [] dt[1] = "DateTime" -> Some(<<"DateTime", dt[2] + d>>)

\* add_duration() that moves a bare time around the clock.
add_duration_time_wrapping(dt, d) ==
    CASE dt[1] = "Date" -> Some(<<"Date", dt[2] + num_days(d)>>)
      [] dt[1] = "Time" -> Some(<<"Time", (dt[2] + d) % SecondsPerDay>>)
      [] dt[1] = "DateTime" -> Some(<<"DateTime", dt[2] + d>>)

add_duration(dt, d) ==
    CASE dt[1] = "Date" -> Some(<<"Date", dt[2] + num_days(d)>>)
      [] dt[1] = "Time" -> None
      [] dt[1] = "DateTime" -> Some(<<"DateTime", dt[2] + d>>)

subtract_duration(dt, d) ==
    CASE dt[1] = "Date" -> Some(<<"Date", dt[2] - num_days(d)>>)
      [] dt[1] = "Time" -> None
      [] dt[1] = "DateTime" -> Some(<<"DateTime", dt[2] - d>>)

-----------------------------------------------------------------------------
(* ValueKeyBehavior.  A key is <<"String", text>>, <<"&str", text>> or     *)
(* <<"usize", n>>; a ValueKey is <<"String", text>> or <<"Number", n>>.    *)

\* StringB::from(text): the StringB of the text.
StringB_from(t) == t

\* <String / usize / &str as ValueKeyBehavior>::to_value_key
to_value_key(key) ==
    CASE key[1] = "String" -> <<"String", StringB_from(key[2])>>
      [] key[1] = "usize" -> <<"Number", key[2]>>
      [] key[1] = "&str" -> <<"String", StringB_from(key[2])>>

\* as_usize() left at the trait's default for every type.
as_usize_default(key) == Z(0)

\* as_usize(): the trait's default, which usize overrides.
as_usize(key) == IF key[1] = "usize" THEN key[2] ELSE Z(0)

\* is_usize(): the trait's default, which usize overrides.
is_usize(ty) == IF ty = "usize" THEN TRUE ELSE FALSE

-----------------------------------------------------------------------------
(* The inputs. *)

\* The most slots the general machine populates at once.
MaxSlots == 2

\* The longest text built from Alphabet.
MaxTextLen == 3

\* The values the general machine's setters are called with.
Vals(k) ==
    IF k \in SignedKinds THEN {Z(-42), Z(42)}
    ELSE IF k \in UnsignedKinds THEN {Z(0), Z(42)}
    ELSE {Fin(k, TRUE, <<4, 2>>, 0), Fin(k, FALSE, <<3, 1, 4>>, -2)}

\* Every integer type's MIN and MAX, their neighbours, and a few small
\* values.
\* The values clean() followed by a setter is given: those of the setters and,
\* for the float kinds, NaN.
CleanSetVals(k) == Vals(k) \cup (IF k \in FloatKinds THEN {NaN} ELSE {})

Landmarks ==
    {Z(-42), Z(-1), Z(0), Z(1), Z(42)} \cup
    UNION {{Sub(MinOf(k), Z(1)), MinOf(k), Add(MinOf(k), Z(1)),
            Sub(MaxOf(k), Z(1)), MaxOf(k), Add(MaxOf(k), Z(1))} : k \in IntKinds}

\* The values a single-slot Number is built from: for an integer kind every
\* landmark the kind can hold.
Wide(k) ==
    IF k \in IntKinds THEN {v \in Landmarks : InRange(v, k)}
    ELSE {NaN, Inf(FALSE), Inf(TRUE), Fin(k, FALSE, <<>>, 0), Fin(k, TRUE, <<>>, 0),
          Fin(k, FALSE, <<4, 2>>, 0), Fin(k, TRUE, <<4, 2>>, 0),
          Fin(k, FALSE, <<3, 1, 4>>, -2), Fin(k, FALSE, <<5>>, -1),
          Fin(k, TRUE, <<1, 2, 5>>, -1), Fin(k, FALSE, <<1>>, -7),
          Fin(k, FALSE, <<1>>, 21)}

Alphabet == {"0", "2", "7", "-", "+", ".", "e", "E", "n", "a", "N", "i", "f", "x"}

LongTexts ==
    { <<"2", "0", "0">>, <<"3", ".", "1", "4">>, <<"a", "b", "c">>,
      <<"4", "2", ".", "0">>, <<"-", "4", "2">>,
      <<"2", "1", "4", "7", "4", "8", "3", "6", "4", "7">>,
      <<"2", "1", "4", "7", "4", "8", "3", "6", "4", "8">>,
      <<"-", "2", "1", "4", "7", "4", "8", "3", "6", "4", "8">>,
      <<"-", "2", "1", "4", "7", "4", "8", "3", "6", "4", "9">>,
      <<"9", "9", "9", "9", "9", "9", "9", "9", "9", "9", "9">>,
      <<"i", "n", "f", "i", "n", "i", "t", "y">>, <<"-", "I", "n", "f">>,
      <<"1", "e", "4", "0", "0">>, <<"1", "e", "-", "4", "0", "0">>,
      <<"1", "2", "7", " ">>, <<"1", "_", "0">> }

Texts == LongTexts \cup UNION {[1..n -> Alphabet] : n \in 0..MaxTextLen}

\* The longest Array and the most keys of an Object among the Values.
MaxArrayLen == 2

MaxKeys == 2

KeyNames == <<"a", "b", "c", "d">>

Keys == {KeyNames[i] : i \in 1..MaxKeys}

NumberValue(n) == <<"Number", n>>

\* The Numbers among the Values: the empty one, one of each kind for each
\* setter value, floats that compare specially, and one with two slots.
NumberValues ==
    {NumberValue(Default), NumberValue(set(From("u8", Z(42)), "i32", Z(7))),
     NumberValue(From("f64", NaN)), NumberValue(From("f64", Fin("f64", TRUE, <<>>, 0))),
     NumberValue(From("f64", Fin("f64", FALSE, <<3, 1, 4, 1>>, -3))),
     NumberValue(From("u8", Z(1))), NumberValue(From("i32", Z(3)))} \cup
    UNION {{NumberValue(From(k, v)) : v \in Vals(k)} : k \in Kinds}

\* The Values an Array or an Object is filled with.
Leaves ==
    {NumberValue(From("i32", Z(42))), NumberValue(From("u8", Z(42))),
     NumberValue(From("f64", NaN)), <<"String", <<"a">>>>, <<"Boolean", TRUE>>,
     <<"Null">>, <<"Undefined">>}

Values ==
    NumberValues \cup Leaves \cup
    {<<"String", <<>>>>, <<"String", <<"a", "b">>>>, <<"String", <<"A">>>>,
     <<"Boolean", FALSE>>, <<"DateTime", from_ymd_opt(2023, 4, 5)>>,
     <<"Array", << <<"Array", <<NumberValue(From("i32", Z(42)))>>>> >>>>} \cup
    {<<"Array", a>> : a \in UNION {[1..n -> Leaves] : n \in 0..MaxArrayLen}} \cup
    {<<"Object", o>> : o \in UNION {[S -> Leaves] : S \in SUBSET Keys}}

BaseTypes == {<<k>> : k \in Kinds} \cup {<<"String">>, <<"bool">>, <<"Value">>}

NativeTypes ==
    BaseTypes \cup
    {<<c, T>> : c \in {"Vec", "HashMap", "BTreeMap", "Option"}, T \in BaseTypes} \cup
    {<<"Vec", <<"Option", <<"i32">>>>>>, <<"Vec", <<"Vec", <<"i32">>>>>>,
     <<"Option", <<"Option", <<"i32">>>>>>, <<"Option", <<"Vec", <<"i32">>>>>>,
     <<"HashMap", <<"Vec", <<"Value">>>>>>}

\* The right-hand sides of the comparisons: Values of the variants whose
\* payload's order is modelled.
Comparands == {v \in NumberValues \cup Leaves : TRUE} \cup
    {<<"String", <<>>>>, <<"String", <<"a", "b">>>>, <<"Boolean", FALSE>>}

\* The longest Duration, in days.
MaxDurationDays == 2

\* Durations of whole hours up to MaxDurationDays either way, and those a
\* second off zero and off a day.
Durations ==
    {h * 3600 : h \in (-24 * MaxDurationDays)..(24 * MaxDurationDays)} \cup
    {-SecondsPerDay - 1, -SecondsPerDay + 1, -1, 1, SecondsPerDay - 1, SecondsPerDay + 1}

DateTimes ==
    {from_ymd_opt(2023, 4, 5), from_ymd_opt(2023, 12, 31), from_ymd_opt(2024, 2, 28),
     from_ymd_opt(2024, 3, 1), from_ymd_opt(1970, 1, 1), from_ymd_opt(1969, 12, 31),
     <<"Time", 0>>, <<"Time", 12 * 3600 + 34 * 60 + 56>>, <<"Time", SecondsPerDay - 1>>,
     with_ymd_and_hms(2023, 4, 5, 12, 34, 56), with_ymd_and_hms(2023, 12, 31, 23, 59, 59),
     with_ymd_and_hms(1970, 1, 1, 0, 0, 0)}

\* The longest text of a key.
MaxKeyLen == 2

KeyInputs ==
    {<<ty, t>> : ty \in {"String", "&str"},
                 t \in UNION {[1..n -> {"a", "b", "1"}] : n \in 0..MaxKeyLen}} \cup
    {<<"usize", n>> : n \in {v \in Landmarks : InRange(v, "u64")}}

MaxSize == 24

\* The values of usize and isize (64 bits wide) the conversions are given:
\* the small ones and those around the ends of the integer kinds.
SizeInputs(k) ==
    {v \in Landmarks \cup {Z(i) : i \in -MaxSize..MaxSize} : InRange(v, k)}

-----------------------------------------------------------------------------
(* The machines.  Each call is one step; `out` holds the call and what it  *)
(* returned.                                                               *)

Init ==
    /\ number = Default
    /\ lastSet = "none"
    /\ out = [op |-> "default"]
    /\ text = <<>>
    /\ value = <<"Null">>

\* number.clean()
Clean ==
    /\ number' = clean(number)
    /\ out' = [op |-> "clean", populated |-> Cardinality(Populated(number))]
    /\ UNCHANGED <<lastSet, text, value>>

\* number.set_<k>(v)
Set ==
    \E k \in Kinds : \E v \in Vals(k) :
        /\ Cardinality(Populated(number) \cup {k}) <= MaxSlots
        /\ number' = set(number, k, v)
        /\ lastSet' = k
        /\ out' = [op |-> "set", kind |-> k, arg |-> v]
        /\ UNCHANGED <<text, value>>

\* number.clean().set_<k>(v)
CleanSet ==
    \E k \in Kinds : \E v \in CleanSetVals(k) :
        /\ number' = set(clean(number), k, v)
        /\ lastSet' = k
        /\ out' = [op |-> "clean_set", kind |-> k, arg |-> v,
                   before |-> Cardinality(Populated(number))]
        /\ UNCHANGED <<text, value>>

\* number.get_<k>()
Get ==
    \E k \in Kinds :
        /\ out' = [op |-> "get", kind |-> k, res |-> get(number, k)]
        /\ UNCHANGED <<number, lastSet, text, value>>

\* number.is_<k>()
Is ==
    \E k \in Kinds :
        /\ out' = [op |-> "is", kind |-> k, res |-> is(number, k)]
        /\ UNCHANGED <<number, lastSet, text, value>>

\* number.get_<k>_unsafe()
GetUnsafe ==
    \E k \in Kinds :
        /\ out' = [op |-> "get_unsafe", kind |-> k, res |-> get_unsafe(number, k)]
        /\ UNCHANGED <<number, lastSet, text, value>>

IsNumber ==
    /\ out' = [op |-> "is_number", res |-> is_number(number)]
    /\ UNCHANGED <<number, lastSet, text, value>>

NumberTypeCall ==
    /\ out' = [op |-> "number_type", res |-> number_type(number)]
    /\ UNCHANGED <<number, lastSet, text, value>>

ToI64 ==
    /\ out' = [op |-> "to_i64", res |-> to_i64(number)]
    /\ UNCHANGED <<number, lastSet, text, value>>

ToU64 ==
    /\ out' = [op |-> "to_u64", res |-> to_u64(number)]
    /\ UNCHANGED <<number, lastSet, text, value>>

ToF64 ==
    /\ out' = [op |-> "to_f64", res |-> to_f64(number)]
    /\ UNCHANGED <<number, lastSet, text, value>>

\* format!("{}", number)
Display ==
    /\ out' = [op |-> "display", res |-> fmt(number)]
    /\ UNCHANGED <<number, lastSet, text, value>>

IsSigned ==
    /\ out' = [op |-> "is_signed", res |-> is_signed(number)]
    /\ UNCHANGED <<number, lastSet, text, value>>

IsUnsigned ==
    /\ out' = [op |-> "is_unsigned", res |-> is_unsigned(number)]
    /\ UNCHANGED <<number, lastSet, text, value>>

IsZero ==
    /\ out' = [op |-> "is_zero", res |-> is_zero(number)]
    /\ UNCHANGED <<number, lastSet, text, value>>

IsPositive ==
    /\ out' = [op |-> "is_positive", res |-> is_positive(number)]
    /\ UNCHANGED <<number, lastSet, text, value>>

IsNegative ==
    /\ out' = [op |-> "is_negative", res |-> is_negative(number)]
    /\ UNCHANGED <<number, lastSet, text, value>>

\* Number::try_from(text)
TryFrom ==
    /\ out' = [op |-> "try_from", res |-> try_from(text)]
    /\ UNCHANGED <<number, lastSet, text, value>>

\* T::from_value(value); the Value is moved into the call, so each
\* constructed Value takes one call.
FromValue ==
    /\ out.op = "default"
    /\ \E T \in NativeTypes :
        /\ out' = [op |-> "from_value", ty |-> T, res |-> from_value(T, value)]
        /\ UNCHANGED <<number, lastSet, text, value>>

\* from_value::<T>(value.clone()).map(|x| x.to_value()) == Some(value)
RoundTrip ==
    /\ out.op = "default"
    /\ \E T \in NativeTypes :
        LET r == round_trip(T, value)
        IN /\ out' = [op |-> "round_trip", ty |-> T, res |-> r,
                      eq |-> Len(r) = 1 /\ value_eq(unwrap(r), value)]
           /\ UNCHANGED <<number, lastSet, text, value>>

\* value.partial_cmp(&w) and the four operators it decides
PartialCmp ==
    /\ out.op = "default"
    /\ \E w \in Comparands :
        LET c == value_partial_cmp(value, w)
        IN /\ out' = [op |-> "partial_cmp", rhs |-> w, res |-> c,
                      lt |-> c = Some("Less"),
                      le |-> c \in {Some("Less"), Some("Equal")},
                      gt |-> c = Some("Greater"),
                      ge |-> c \in {Some("Greater"), Some("Equal")}]
           /\ UNCHANGED <<number, lastSet, text, value>>

\* value.add_duration(d), value a Value::DateTime's payload
AddDuration ==
    \E d \in Durations :
        /\ out' = [op |-> "add_duration", arg |-> d, res |-> add_duration(value[2], d)]
        /\ UNCHANGED <<number, lastSet, text, value>>

\* value.subtract_duration(d)
SubtractDuration ==
    \E d \in Durations :
        /\ out' = [op |-> "subtract_duration", arg |-> d,
                   res |-> subtract_duration(value[2], d)]
        /\ UNCHANGED <<number, lastSet, text, value>>

\* key.to_value_key()
ToValueKey ==
    \E key \in KeyInputs :
        /\ out' = [op |-> "to_value_key", key |-> key, res |-> to_value_key(key)]
        /\ UNCHANGED <<number, lastSet, text, value>>

\* key.as_usize()
AsUsize ==
    \E key \in KeyInputs :
        /\ out' = [op |-> "as_usize", key |-> key, res |-> as_usize(key)]
        /\ UNCHANGED <<number, lastSet, text, value>>

\* K::is_usize(), K the type of the key
IsUsize ==
    \E key \in KeyInputs :
        /\ out' = [op |-> "is_usize", key |-> key, res |-> is_usize(key[1])]
        /\ UNCHANGED <<number, lastSet, text, value>>

\* The general machine: any setter on any state, clean, and the getters.
Next ==
    \/ Clean \/ Set \/ Get \/ GetUnsafe \/ Is \/ IsNumber \/ NumberTypeCall
    \/ ToI64 \/ Display

Spec == Init /\ [][Next]_vars

\* The disciplined use the tests make: every setter right after clean().
NextCleanSet == CleanSet \/ Is \/ NumberTypeCall

SpecCleanSet == Init /\ [][NextCleanSet]_vars

NextRebuild == Set \/ CleanSet

SpecRebuild == Init /\ [][NextRebuild]_vars

\* A Number as Number::default() or Number::from(v) constructs it, and its
\* conversions.
InitFrom ==
    /\ number \in {Default} \cup UNION {{From(k, v) : v \in Wide(k)} : k \in Kinds}
    /\ lastSet = "none"
    /\ out = [op |-> "from"]
    /\ text = <<>>
    /\ value = <<"Null">>

NextFrom ==
    \/ ToI64 \/ ToU64 \/ ToF64 \/ Display
    \/ IsSigned \/ IsUnsigned \/ IsZero \/ IsPositive \/ IsNegative

SpecFrom == InitFrom /\ [][NextFrom]_vars

\* Number::try_from on a text.
InitParse ==
    /\ number = Default
    /\ lastSet = "none"
    /\ out = [op |-> "default"]
    /\ text \in Texts
    /\ value = <<"Null">>

NextParse == TryFrom

SpecParse == InitParse /\ [][NextParse]_vars

\* A Value, its conversions to native types and its comparisons.
InitValue ==
    /\ number = Default
    /\ lastSet = "none"
    /\ out = [op |-> "default"]
    /\ text = <<>>
    /\ value \in Values

NextValue == FromValue \/ RoundTrip \/ PartialCmp

SpecValue == InitValue /\ [][NextValue]_vars

\* A DateTime and its duration arithmetic.
InitDate ==
    /\ number = Default
    /\ lastSet = "none"
    /\ out = [op |-> "default"]
    /\ text = <<>>
    /\ value \in {<<"DateTime", dt>> : dt \in DateTimes}

NextDate == AddDuration \/ SubtractDuration

SpecDate == InitDate /\ [][NextDate]_vars

\* The keys and what they answer.
NextKey == ToValueKey \/ AsUsize \/ IsUsize

SpecKey == Init /\ [][NextKey]_vars

\* Number::from(i) of a usize
FromUsize ==
    /\ out.op = "default"
    /\ \E i \in SizeInputs("usize") :
        /\ number' = from_usize(i)
        /\ out' = [op |-> "from_usize", arg |-> i]
    /\ UNCHANGED <<lastSet, text, value>>

\* Number::from(i) of an isize
FromIsize ==
    /\ out.op = "default"
    /\ \E i \in SizeInputs("isize") :
        /\ number' = from_isize(i)
        /\ out' = [op |-> "from_isize", arg |-> i]
    /\ UNCHANGED <<lastSet, text, value>>

NextSize == FromUsize \/ FromIsize

SpecSize == Init /\ [][NextSize]_vars

-----------------------------------------------------------------------------
(* The claims. *)

\* The NumberType variant named after a kind.
NumberTypeOf(k) ==
    [i8 |-> "I8", i16 |-> "I16", i32 |-> "I32", i64 |-> "I64", i128 |-> "I128",
     u8 |-> "U8", u16 |-> "U16", u32 |-> "U32", u64 |-> "U64", u128 |-> "U128",
     f32 |-> "F32", f64 |-> "F64"][k]

\* Exactly slot k of n is populated.
SingleSlot(n, k) == Populated(n) = {k}

\* C1: after any sequence of clean()-then-set_<kind>(v) steps, exactly one
\* is_<kind>() is true, it is the one of the kind set last, and
\* number_type() is that kind.
C1_SingleSlotAfterCleanSet ==
    lastSet # "none" =>
        /\ \A k \in Kinds : is(number, k) <=> k = lastSet
        /\ number_type(number) = NumberTypeOf(lastSet)
        /\ out.op = "is" => (out.res <=> out.kind = lastSet)
        /\ out.op = "number_type" => out.res = NumberTypeOf(lastSet)

C1_Witness ==
    /\ lastSet = "f64"
    /\ out.op = "is" /\ out.kind = "f64" /\ out.res = TRUE

\* C2: set_<kind>(v) stores v in its slot and leaves the other eleven as they
\* were, so that two setters of different kinds in a row, with no clean()
\* between them, leave both slots populated.
C2_SetChangesOnlyItsSlot ==
    [][out'.op = "set" =>
        /\ number'[out'.kind] = Some(out'.arg)
        /\ \A j \in Kinds \ {out'.kind} : number'[j] = number[j]
        /\ (out.op = "set" /\ out.kind # out'.kind) =>
              /\ get(number', out.kind) = Some(out.arg)
              /\ get(number', out'.kind) = Some(out'.arg)]_vars

C2_Witness ==
    /\ out.op = "set" /\ out.kind = "u8"
    /\ number["u8"] = Some(out.arg)
    /\ is(number, "i128")

\* C3: get_<k>() returns the slot (Some(v) when it holds v, None when it is
\* empty), is_<k>() is true exactly when get_<k>() is Some, and neither
\* changes a slot.
C3_GetAndIsReadTheSlot ==
    [][/\ out'.op = "get" =>
            /\ out'.res = number[out'.kind]
            /\ number' = number
       /\ out'.op = "is" =>
            /\ out'.res <=> (get(number, out'.kind) # None)
            /\ number' = number]_vars

C3_Witness ==
    /\ out.op = "get" /\ out.res # None
    /\ Cardinality(Populated(number)) > 1

\* C4: clean() empties every slot whatever the state before it: is_number()
\* is false, every get_<kind>() is None and number_type() is Unknown.
C4_CleanEmptiesAll ==
    out.op = "clean" =>
        /\ ~is_number(number)
        /\ \A k \in Kinds : get(number, k) = None
        /\ number_type(number) = "Unknown"

C4_Witness == out.op = "clean" /\ out.populated > 1

TypePriority == <<"i8", "i16", "i32", "i64", "i128",
                  "u8", "u16", "u32", "u64", "u128", "f32", "f64">>

\* The kind number_type() is to report for n.
ExpectedType(n) ==
    LET k == First(TypePriority, LAMBDA j : n[j] # None)
    IN IF k = "none" THEN "Unknown" ELSE NumberTypeOf(k)

\* C5: number_type() is the first populated kind in the order I8, I16, I32,
\* I64, I128, U8, U16, U32, U64, U128, F32, F64, whatever the order of the
\* setters, and Unknown exactly when no slot is populated.
C5_NumberTypePriority ==
    /\ number_type(number) = ExpectedType(number)
    /\ number_type(number) = "Unknown" <=> Populated(number) = {}
    /\ out.op = "number_type" => out.res = ExpectedType(number)

C5_Witness ==
    /\ out.op = "number_type" /\ out.res = "I128"
    /\ is(number, "u8") /\ lastSet = "u8"

\* C6: to_i64() of a Number holding one unsigned slot with value v is Some(v)
\* when v <= i64::MAX and None when v > i64::MAX.
C6_UnsignedToI64 ==
    \A k \in UnsignedKinds :
        (SingleSlot(number, k) /\ out.op = "to_i64") =>
            out.res = IF Le(unwrap(number[k]), MaxOf("i64"))
                      THEN Some(unwrap(number[k])) ELSE None

\* C7: to_i64() of a Number holding one signed slot with value v is Some(v)
\* when i64::MIN <= v <= i64::MAX and None otherwise.
C7_SignedToI64 ==
    \A k \in SignedKinds :
        (SingleSlot(number, k) /\ out.op = "to_i64") =>
            out.res = IF InRange(unwrap(number[k]), "i64")
                      THEN Some(unwrap(number[k])) ELSE None

\* C8: to_u64() of a Number holding one integer slot with value v is Some(v)
\* exactly when 0 <= v <= u64::MAX, and None otherwise.
C8_IntegerToU64 ==
    \A k \in IntKinds :
        (SingleSlot(number, k) /\ out.op = "to_u64") =>
            out.res = IF InRange(unwrap(number[k]), "u64")
                      THEN Some(unwrap(number[k])) ELSE None

C8_Witness ==
    /\ out.op = "to_u64" /\ out.res = None
    /\ SingleSlot(number, "i128")
    /\ Gt(unwrap(number["i128"]), MaxOf("u64"))

\* C9: to_i64() and to_u64() are None for a Number whose only slot is f32 or
\* f64, whatever the float; to_i64(), to_u64() and to_f64() are None for the
\* empty Number.
C9_FloatsAndEmptyDoNotConvert ==
    /\ \A k \in FloatKinds :
          (SingleSlot(number, k) /\ out.op \in {"to_i64", "to_u64"}) =>
              out.res = None
    /\ (number = Default /\ out.op \in {"to_i64", "to_u64", "to_f64"}) =>
          out.res = None

C9_Witness ==
    /\ out.op = "to_i64" /\ out.res = None
    /\ number = From("f64", Fin("f64", FALSE, <<4, 2>>, 0))

ParserOrder == <<"i32", "f64", "i8", "i16", "i64", "i128",
                 "u8", "u16", "u32", "u64", "u128", "f32">>

\* C10: Number::try_from(text) is a Number with exactly one slot populated,
\* of the kind of the first of the parsers i32, f64, i8, i16, i64, i128, u8,
\* u16, u32, u64, u128, f32 that accepts the text, and Err(NotNumber) exactly
\* when none of them does.
C10_FirstParserWins ==
    out.op = "try_from" =>
        LET k == First(ParserOrder, LAMBDA j : parse(text, j).ok)
        IN IF k = "none" THEN out.res = Err("NotNumber")
           ELSE out.res.ok /\ SingleSlot(out.res.val, k)

C10_Witness ==
    /\ text = <<"2", "0", "0">>
    /\ out.op = "try_from" /\ out.res.ok
    /\ is(out.res.val, "i32") /\ ~is(out.res.val, "u8")

\* A decimal integer text: an optional '-', then digits with no leading zero
\* (the text of zero is "0").
IsDecimalIntText(t) ==
    LET body == IF t # <<>> /\ Head(t) = "-" THEN Tail(t) ELSE t
    IN /\ body # <<>>
       /\ \A i \in 1..Len(body) : IsDigit(body[i])
       /\ Len(body) > 1 => body[1] # "0"

C12_IsSignedMeansNegative ==
    LET below(k) ==
            LET x == unwrap(number[k])
            IN IF k \in FloatKinds
               THEN (x.cls = "inf" /\ x.neg) \/ (x.cls = "num" /\ x.neg /\ x.dig # <<>>)
               ELSE x.neg /\ x.mag # <<>>
        expected == \E k \in SignedKinds \cup FloatKinds : is(number, k) /\ below(k)
    IN /\ is_signed(number) <=> expected
       /\ out.op = "is_signed" => (out.res <=> expected)
       /\ \A k \in UnsignedKinds : SingleSlot(number, k) =>
             /\ ~is_signed(number) /\ is_unsigned(number)
             /\ out.op = "is_signed" => out.res = FALSE
             /\ out.op = "is_unsigned" => out.res = TRUE

C12_Witness ==
    /\ out.op = "is_signed" /\ out.res = FALSE
    /\ number = From("i64", MaxOf("i64"))

\* C13: for a Number with exactly one integer slot populated with v, exactly
\* one of is_zero(), is_positive(), is_negative() is true: is_zero() iff
\* v = 0, is_positive() iff v > 0, is_negative() iff v < 0.
C13_ZeroPositiveNegative ==
    \A k \in IntKinds : SingleSlot(number, k) =>
        LET v == unwrap(number[k])
            z == is_zero(number)
            p == is_positive(number)
            g == is_negative(number)
        IN /\ z <=> (v.mag = <<>>)
           /\ p <=> (~v.neg /\ v.mag # <<>>)
           /\ g <=> (v.neg /\ v.mag # <<>>)
           /\ Cardinality({b \in {"z", "p", "g"} :
                             (b = "z" /\ z) \/ (b = "p" /\ p) \/ (b = "g" /\ g)}) = 1
           /\ out.op = "is_zero" => out.res = z
           /\ out.op = "is_positive" => (out.res <=> (~v.neg /\ v.mag # <<>>))
           /\ out.op = "is_negative" => (out.res <=> (v.neg /\ v.mag # <<>>))

C13_Witness ==
    /\ out.op = "is_positive" /\ out.res = FALSE
    /\ number = From("u8", Z(0))

\* C14: for a numeric type T of the twelve kinds, T::from_value(v) is
\* Some(x) exactly when v is a Number whose T-slot holds x, and absence for
\* every other variant and for a Number whose T-slot is empty, whatever its
\* other slots hold: nothing is widened or narrowed.
C14_FromValueReadsTheMatchingSlot ==
    (out.op = "from_value" /\ out.ty[1] \in Kinds) =>
        LET k == out.ty[1]
        IN /\ value[1] # "Number" => out.res = None
           /\ value[1] = "Number" =>
                 /\ value[2][k] # None => out.res = Some(unwrap(value[2][k]))
                 /\ value[2][k] = None => out.res = None
           /\ (k = "i32" /\ value = NumberValue(From("u8", Z(42)))) => out.res = None

C14_Witness ==
    /\ out.op = "from_value" /\ out.ty = <<"i32">>
    /\ value = NumberValue(From("u8", Z(42)))
    /\ out.res = None

\* C15: Vec<T>::from_value(v) is absence when v is not an Array; when every
\* element converts with T::from_value it is Some of the converted elements,
\* in the same order and of the same length; when some element's conversion
\* is absence the call panics.
C15_VecFromValue ==
    (out.op = "from_value" /\ out.ty[1] = "Vec") =>
        IF value[1] # "Array" THEN out.res = None
        ELSE LET conv == [i \in 1..Len(value[2]) |-> from_value(out.ty[2], value[2][i])]
             IN /\ (\A i \in 1..Len(conv) : Len(conv[i]) = 1) =>
                      /\ Len(out.res) = 1
                      /\ Len(unwrap(out.res)) = Len(value[2])
                      /\ \A i \in 1..Len(conv) : unwrap(out.res)[i] = unwrap(conv[i])
                /\ (\E i \in 1..Len(conv) : conv[i] = None) => out.res = Unwind

C15_Witness ==
    /\ out.op = "from_value" /\ out.ty = <<"Vec", <<"i32">>>>
    /\ value = <<"Array", <<NumberValue(From("i32", Z(42))), NumberValue(From("u8", Z(42)))>>>>
    /\ out.res = Unwind

\* C16: HashMap<String, T>::from_value(v) and BTreeMap<String, T>::from_value(v)
\* are absence when v is not an Object; when every value converts they are
\* Some map with exactly the Object's keys, each mapped to its converted
\* value; when some value's conversion is absence the call panics.
C16_MapFromValue ==
    (out.op = "from_value" /\ out.ty[1] \in {"HashMap", "BTreeMap"}) =>
        IF value[1] # "Object" THEN out.res = None
        ELSE LET conv == [key \in DOMAIN value[2] |-> from_value(out.ty[2], value[2][key])]
             IN /\ (\A key \in DOMAIN conv : Len(conv[key]) = 1) =>
                      /\ Len(out.res) = 1
                      /\ DOMAIN unwrap(out.res) = DOMAIN value[2]
                      /\ \A key \in DOMAIN conv : unwrap(out.res)[key] = unwrap(conv[key])
                /\ (\E key \in DOMAIN conv : conv[key] = None) => out.res = Unwind

C16_Witness ==
    /\ out.op = "from_value" /\ out.ty = <<"HashMap", <<"i32">>>>
    /\ value[1] = "Object" /\ DOMAIN value[2] = {"a", "b"}
    /\ value[2]["a"] = NumberValue(From("i32", Z(42)))
    /\ value[2]["b"] = <<"Null">>
    /\ out.res = Unwind

\* C17: Option<T>::from_value(v) is the outer None exactly when v is Null;
\* for every other variant, Undefined too, it is Some(T::from_value(v)):
\* Some(Some(x)) when the inner conversion succeeds and Some(None) when it
\* fails.  Option<i32>::from_value of the Number from 42i32 is Some(Some(42)).
C17_OptionFromValue ==
    (out.op = "from_value" /\ out.ty[1] = "Option") =>
        /\ out.res = None <=> value[1] = "Null"
        /\ value[1] # "Null" =>
              LET inner == from_value(out.ty[2], value)
              IN ~IsUnwind(inner) => Len(out.res) = 1 /\ unwrap(out.res) = inner
        /\ (out.ty = <<"Option", <<"i32">>>> /\ value = NumberValue(From("i32", Z(42)))) =>
              out.res = Some(Some(Z(42)))

C17_Witness ==
    /\ out.op = "from_value" /\ out.ty = <<"Option", <<"i32">>>>
    /\ value = <<"Undefined">>
    /\ out.res = Some(None)

\* The native type T is the one of the Value v's variant and, for a Number,
\* of its one populated kind.
MatchingType(T, v) ==
    \/ T = <<"Value">>
    \/ v[1] = "Number" /\ Len(T) = 1 /\ T[1] \in Kinds /\ SingleSlot(v[2], T[1])
    \/ v[1] = "String" /\ T = <<"String">>
    \/ v[1] = "Boolean" /\ T = <<"bool">>
    \/ v[1] = "Array" /\ T = <<"Vec", <<"Value">>>>
    \/ v[1] = "Object" /\ T \in {<<"HashMap", <<"Value">>>>, <<"BTreeMap", <<"Value">>>>}

RECURSIVE HoldsNaN(_)
\* A float slot of the Value, or of a Value inside it, holds NaN.
HoldsNaN(v) ==
    CASE v[1] = "Number" ->
            \E k \in FloatKinds : is(v[2], k) /\ unwrap(v[2][k]).cls = "nan"
      [] v[1] = "Array" -> \E i \in 1..Len(v[2]) : HoldsNaN(v[2][i])
      [] v[1] = "Object" -> \E key \in DOMAIN v[2] : HoldsNaN(v[2][key])
      [] OTHER -> FALSE

C19_DifferentVariantsIncomparable ==
    (out.op = "partial_cmp" /\ value[1] # out.rhs[1]) =>
        /\ out.res = None
        /\ ~out.lt /\ ~out.le /\ ~out.gt /\ ~out.ge

\* C20: two Numbers that each hold one integer slot, of the same kind or of
\* different kinds, with values a and b compare as a and b do: A < B exactly
\* when a < b, and A > B exactly when a > b.
C20_NumberOrderIsNumeric ==
    (out.op = "partial_cmp" /\ value[1] = "Number" /\ out.rhs[1] = "Number") =>
        \A ka, kb \in IntKinds :
            (SingleSlot(value[2], ka) /\ SingleSlot(out.rhs[2], kb)) =>
                LET a == unwrap(value[2][ka])
                    b == unwrap(out.rhs[2][kb])
                IN /\ out.lt <=> Lt(a, b)
                   /\ out.gt <=> Gt(a, b)

C22_ValueKeyBehavior ==
    out.op \in {"to_value_key", "as_usize", "is_usize"} =>
        LET stringlike == out.key[1] \in {"String", "&str"}
        IN /\ out.op = "to_value_key" =>
                 /\ out.res[1] = (IF stringlike THEN "String" ELSE "Number")
                 /\ out.res[2] = out.key[2]
           /\ out.op = "is_usize" => (out.res <=> ~stringlike)
           /\ out.op = "as_usize" =>
                 out.res = (IF stringlike THEN Z(0) ELSE out.key[2])

C22_Witness ==
    /\ out.op = "as_usize"
    /\ out.key = <<"usize", MaxOf("u64")>>
    /\ out.res = MaxOf("u64")

Narrowest(v, ks) ==
    CHOOSE k \in ks :
        /\ InRange(v, k)
        /\ \A j \in ks : InRange(v, j) => Bits(k) <= Bits(j)

\* C24: Number::from(i) of an isize i, negative or not, populates exactly
\* one slot, of the narrowest of i8, i16, i32, i64 whose range holds i, and
\* the slot holds i.
C24_IsizeTakesNarrowestSignedKind ==
    out.op = "from_isize" =>
        LET k == Narrowest(out.arg, {"i8", "i16", "i32", "i64"})
        IN SingleSlot(number, k) /\ number[k] = Some(out.arg)

\* C25: Number::from(n) of a usize n populates exactly one slot, of the
\* narrowest of u8, u16, u32, u64 whose range holds n, and the slot holds n.
C25_UsizeTakesNarrowestUnsignedKind ==
    out.op = "from_usize" =>
        LET k == Narrowest(out.arg, {"u8", "u16", "u32", "u64"})
        IN SingleSlot(number, k) /\ number[k] = Some(out.arg)

C25_Witness ==
    /\ out.op = "from_usize"
    /\ out.arg = Add(MaxOf("u16"), Z(1))
    /\ number = From("u32", out.arg)

\* The kind whose slot number_type() names, for the integer kinds.
NamedKind(n) == CHOOSE k \in IntKinds : NumberTypeOf(k) = number_type(n)

NamesIntegerKind(n) == \E k \in IntKinds : NumberTypeOf(k) = number_type(n)

\* C26: in every state the setters and clean() reach, sets without a clean()
\* between them included, when number_type() names an integer kind and
\* to_i64() returns Some(v), v is the value of the slot number_type() names,
\* and that value is what Display prints.
C26_ProjectionsReportOneSlot ==
    (NamesIntegerKind(number) /\ is_some(to_i64(number))) =>
        LET stored == unwrap(number[NamedKind(number)])
        IN /\ out.op = "to_i64" => unwrap(out.res) = stored
           /\ out.op = "display" => out.res = int_to_string(stored)

ElevenNines == <<"9", "9", "9", "9", "9", "9", "9", "9", "9", "9", "9">>

\* C27: try_from produces a Number of the i32 kind or of the f64 kind only:
\* a text that one of the other ten parsers accepts is accepted by the i32
\* or the f64 parser already, and "99999999999" gives the f64 kind.
C27_TryFromGivesI32OrF64 ==
    out.op = "try_from" =>
        /\ out.res.ok => Populated(out.res.val) \in {{"i32"}, {"f64"}}
        /\ (\E k \in Kinds : parse(text, k).ok) =>
               parse(text, "i32").ok \/ parse(text, "f64").ok
        /\ text = ElevenNines => out.res.ok /\ Populated(out.res.val) = {"f64"}

C27_Witness ==
    /\ out.op = "try_from"
    /\ text = ElevenNines
    /\ parse(text, "i64").ok /\ parse(text, "u64").ok /\ ~parse(text, "i32").ok
    /\ Populated(out.res.val) = {"f64"}

\* C28: is_positive() is true only when some slot is populated: for the
\* empty Number is_zero(), is_positive() and is_negative() are all false.
C28_EmptyHasNoSign ==
    (number = Default /\ out.op \in {"is_zero", "is_positive", "is_negative"})
        => out.res = FALSE

\* C30 as stated: from every state the setters and clean() reach, clean()
\* then set_<k>(v) gives a Number == Number::from(v), for every k and v.
C30_CleanSetEqualsFrom ==
    out.op = "clean_set" => number_eq(number, From(out.kind, out.arg))

\* C30, amended: clean() then set_<k>(v) gives the state of Number::from(v),
\* slot k holding v and every other slot empty, and the two are == unless v
\* is NaN, which is == to nothing.
C30_CleanSetIsFromAndEqualUnlessNaN ==
    out.op = "clean_set" =>
        /\ number = From(out.kind, out.arg)
        /\ number_eq(number, From(out.kind, out.arg)) <=> out.arg # NaN

C30_Witness ==
    /\ out.op = "clean_set" /\ out.before = 2
    /\ out.kind = "f64" /\ out.arg # NaN
    /\ number_eq(number, From("f64", out.arg))
====
